---- MODULE Spec2Model ----
(***************************************************************************)
(* Model of the matching service of LuckyJinx                              *)
(* (backend/matching-service/src/matchingService.ts and server.ts).        *)
(*                                                                         *)
(* Every exported handler is an async function.  Each `await` on a store   *)
(* call is a point where another handler can run, so a handler is modelled *)
(* as a sequence of steps: one step executes one store call atomically     *)
(* together with the synchronous code that follows it up to the next store *)
(* call (branching, socket emits, scheduling of delayed messages).         *)
(*                                                                         *)
(* Spec        runs up to MaxConc handlers with their steps interleaved.   *)
(* SpecSerial  runs the same steps, one handler at a time from its first   *)
(*             step to its last, and records the last two handler runs.    *)
(***************************************************************************)
EXTENDS Integers, Sequences, FiniteSets, TLC

VARIABLES
    matchRecord,     \* prisma.matchRecord : recordId -> row (deleted rows leave the domain)
    nextRecordId,    \* autoincrement of matchRecord.recordId
    sessionHistory,  \* prisma.sessionHistory : sequence of rows, in order of creation
    uuidCount,       \* number of uuidv4() values drawn so far
    delayed,         \* "timeout" messages handed to sendDelayedMessage
    confirmDelayed,  \* recordIds of "confirm_timeout" messages handed to sendDelayedMessage
    connected,       \* socket ids of live connections that have sent a matching_request
    closed,          \* socket ids of connections that have disconnected (ids are not reused)
    overlaps,        \* number of handlers started while another handler was running
    events,          \* number of handler runs started so far
    log,             \* every io.to(socket).emit(event): notification -> times emitted
    pc,              \* per handler slot: the step the handler is at
    loc,             \* per handler slot: the handler's local variables
    hist             \* SpecSerial only: the last two handler runs (observation, not program state)

vars == <<matchRecord, nextRecordId, sessionHistory, uuidCount, delayed,
          confirmDelayed, connected, closed, events, overlaps, log, pc, loc, hist>>

dbVars == <<matchRecord, nextRecordId, sessionHistory, uuidCount>>
msgVars == <<delayed, confirmDelayed, connected, closed>>
obsVars == <<events, overlaps, hist>>

-----------------------------------------------------------------------------
(* Bounds *)

MaxEvents == 5
MaxEventsSerial == 6
MaxConc == 2
MaxOverlaps == 1
NumQuestions == 1

Users == {"A", "B", "C"}
Sockets == {"sA", "sA2", "sB", "sC"}
QuestionIds == 1..NumQuestions

\* the matching_request payloads the clients send
RequestInputs ==
    {[userId |-> "A", socketId |-> "sA", topic |-> "arrays", difficulty |-> "easy"],
     [userId |-> "A", socketId |-> "sA2", topic |-> "arrays", difficulty |-> "easy"],
     [userId |-> "B", socketId |-> "sB", topic |-> "arrays", difficulty |-> "easy"],
     [userId |-> "C", socketId |-> "sC", topic |-> "arrays", difficulty |-> "hard"]}
Procs == 1..MaxConc

-----------------------------------------------------------------------------
(* Values *)

NoUser == "none"
NoSocket == "none"
NoTopic == "none"
NoQuestion == -1        \* a null questionId / a failed question lookup
NoRecord == 0           \* recordId of the null row

NullRow ==
    [recordId |-> NoRecord, userId |-> NoUser, topic |-> NoTopic, difficulty |-> NoTopic,
     socketId |-> NoSocket, roomNumber |-> 0, matched |-> FALSE, matchedUserId |-> NoUser,
     isPending |-> FALSE, isConfirmed |-> FALSE, isArchived |-> FALSE,
     questionId |-> NoQuestion]

NullRequest ==
    [userId |-> NoUser, topic |-> NoTopic, difficulty |-> NoTopic, socketId |-> NoSocket]

NullLocals ==
    [userRequest |-> NullRequest, recordId |-> NoRecord, user |-> NullRow,
     excludedUserIds |-> {}, existingMatch |-> NullRow, roomNumber |-> 0,
     question |-> NoQuestion, userRecord |-> NullRow, matchedRecord |-> NullRow,
     result |-> NullRow]

Rows == {matchRecord[i] : i \in DOMAIN matchRecord}

\* a notification: io.to(to).emit(event), sent by handler `by` about match record `record`
Emit(to, event, by, record) == [to |-> to, event |-> event, by |-> by, record |-> record]

\* the notification log after emitting the notifications of sequence es
RECURSIVE Emitted(_, _)
Emitted(l, es) ==
    IF es = <<>> THEN l
    ELSE LET e == Head(es)
             l1 == IF e \in DOMAIN l THEN [l EXCEPT ![e] = @ + 1] ELSE (e :> 1) @@ l
         IN Emitted(l1, Tail(es))

\* prisma findFirst has no orderBy here: any row that satisfies the filter may be returned.
\* FindFirst(S) is the set of possible results, {NullRow} when nothing matches.
FindFirst(S) == IF S = {} THEN {NullRow} ELSE S

IsNull(r) == r.recordId = NoRecord

\* prisma update/delete on a recordId that is not in the table rejects (the handler ends there).
Exists(r) == r.recordId \in DOMAIN matchRecord

UpdateRow(id, f, v) == [matchRecord EXCEPT ![id] = [@ EXCEPT ![f] = v]]

Idle(p) == pc[p] = "idle"
AllIdle == \A p \in Procs : Idle(p)
\* a new handler takes the lowest free slot
FreeSlot(p) == Idle(p) /\ \A q \in Procs : q < p => ~Idle(q)

Goto(p, label) == pc' = [pc EXCEPT ![p] = label]
\* the handler returns (or its promise rejects): the slot is free again
Finish(p) == /\ pc' = [pc EXCEPT ![p] = "idle"]
             /\ loc' = [loc EXCEPT ![p] = NullLocals]

-----------------------------------------------------------------------------
Init ==
    /\ matchRecord = <<>>
    /\ nextRecordId = 1
    /\ sessionHistory = <<>>
    /\ uuidCount = 0
    /\ delayed = {}
    /\ confirmDelayed = {}
    /\ connected = {}
    /\ closed = {}
    /\ overlaps = 0
    /\ events = 0
    /\ log = <<>>
    /\ pc = [p \in Procs |-> "idle"]
    /\ loc = [p \in Procs |-> NullLocals]
    /\ hist = <<>>

-----------------------------------------------------------------------------
(* handleMatchingRequest and handleUserRequest.                                      *)
(* server.ts calls handleMatchingRequest for a 'matching_request' of a live socket:  *)
(* it sends the request to the queue and hands the "timeout" message to the delayed  *)
(* exchange.  The queue's consumer then calls handleUserRequest; the model takes the *)
(* delivery as immediate, so the first step below covers both.                       *)

TimeoutMessage(req) == [userId |-> req.userId, socketId |-> req.socketId]

\* where { userId, isPending: false, isArchived: false }
OutstandingOf(u) == {r \in Rows : r.userId = u /\ ~r.isPending /\ ~r.isArchived}

\* UserRequest_FindUser without the pastSocketId !== socketId test
UserRequest_FindUser_AnySocket(p, req) ==
    /\ FreeSlot(p)
    /\ req.socketId \notin closed
    /\ connected' = connected \cup {req.socketId}
    /\ delayed' = delayed \cup {TimeoutMessage(req)}
    /\ \E user \in FindFirst(OutstandingOf(req.userId)) :
         IF ~IsNull(user)
         THEN /\ log' = Emitted(log, <<Emit(user.socketId, "duplicate socket", "request", user.recordId)>>)
              /\ Goto(p, "ur_updateSocket")
              /\ loc' = [loc EXCEPT ![p] = [NullLocals EXCEPT !.userRequest = req,
                                                              !.user = user]]
         ELSE /\ Goto(p, "ur_previousMatches")
              /\ loc' = [loc EXCEPT ![p] = [NullLocals EXCEPT !.userRequest = req]]
              /\ UNCHANGED log
    /\ UNCHANGED <<dbVars, confirmDelayed, closed>>

UserRequest_FindUser(p, req) ==
    /\ FreeSlot(p)
    /\ req.socketId \notin closed
    /\ connected' = connected \cup {req.socketId}
    /\ delayed' = delayed \cup {TimeoutMessage(req)}      \* sendDelayedTimeoutMessage
    /\ \E user \in FindFirst(OutstandingOf(req.userId)) :
         IF ~IsNull(user)
         THEN IF user.socketId # req.socketId
              THEN /\ log' = Emitted(log, <<Emit(user.socketId, "duplicate socket", "request", user.recordId)>>)
                   /\ Goto(p, "ur_updateSocket")
                   /\ loc' = [loc EXCEPT ![p] = [NullLocals EXCEPT !.userRequest = req,
                                                                   !.user = user]]
              ELSE /\ UNCHANGED <<log, pc, loc>>
         ELSE /\ Goto(p, "ur_previousMatches")
              /\ loc' = [loc EXCEPT ![p] = [NullLocals EXCEPT !.userRequest = req]]
              /\ UNCHANGED log
    /\ UNCHANGED <<dbVars, confirmDelayed, closed>>

UserRequest_UpdateSocket(p) ==
    /\ pc[p] = "ur_updateSocket"
    /\ UNCHANGED obsVars
    /\ IF Exists(loc[p].user)
       THEN matchRecord' = UpdateRow(loc[p].user.recordId, "socketId",
                                     loc[p].userRequest.socketId)
       ELSE UNCHANGED matchRecord
    /\ Finish(p)
    /\ UNCHANGED <<nextRecordId, sessionHistory, uuidCount, msgVars, log>>

\* counterparts of user u in sessionHistory rows where u is userOne or userTwo
PreviousUserIds(u) ==
    {IF sessionHistory[i].userOneId = u THEN sessionHistory[i].userTwoId
                                        ELSE sessionHistory[i].userOneId :
       i \in {j \in DOMAIN sessionHistory :
                  sessionHistory[j].userOneId = u \/ sessionHistory[j].userTwoId = u}}

UserRequest_PreviousMatches(p) ==
    /\ pc[p] = "ur_previousMatches"
    /\ UNCHANGED obsVars
    /\ loc' = [loc EXCEPT ![p].excludedUserIds =
                   {loc[p].userRequest.userId} \cup PreviousUserIds(loc[p].userRequest.userId)]
    /\ Goto(p, "ur_attempt1")
    /\ UNCHANGED <<dbVars, msgVars, log>>

\* Attempt whose first two filters exclude the requester only
Attempt_NoHistory(n, req, excluded) ==
    {r \in Rows :
        /\ r.topic = req.topic
        /\ (n \in {1, 3} => r.difficulty = req.difficulty)
        /\ ~r.matched
        /\ ~r.isArchived
        /\ r.userId # req.userId}

\* the four findFirst filters
Attempt(n, req, excluded) ==
    {r \in Rows :
        /\ r.topic = req.topic
        /\ (n \in {1, 3} => r.difficulty = req.difficulty)
        /\ ~r.matched
        /\ ~r.isArchived
        /\ IF n \in {1, 2} THEN r.userId \notin excluded ELSE r.userId # req.userId}

AttemptLabel(n) == IF n = 1 THEN "ur_attempt1" ELSE IF n = 2 THEN "ur_attempt2"
                   ELSE IF n = 3 THEN "ur_attempt3" ELSE "ur_attempt4"

UserRequest_Attempt(p, n) ==
    /\ pc[p] = AttemptLabel(n)
    /\ UNCHANGED obsVars
    /\ \E existingMatch \in FindFirst(Attempt(n, loc[p].userRequest, loc[p].excludedUserIds)) :
         IF ~IsNull(existingMatch)
         THEN /\ loc' = [loc EXCEPT ![p].existingMatch = existingMatch,
                                    ![p].roomNumber = uuidCount + 1]
              /\ uuidCount' = uuidCount + 1
              /\ Goto(p, "ur_fetchQuestion")
         ELSE /\ IF n < 4
                 THEN /\ Goto(p, AttemptLabel(n + 1))
                      /\ UNCHANGED <<loc, uuidCount>>
                 ELSE /\ loc' = [loc EXCEPT ![p].roomNumber = uuidCount + 1]
                      /\ uuidCount' = uuidCount + 1
                      /\ Goto(p, "ur_createWaiting")
    /\ UNCHANGED <<matchRecord, nextRecordId, sessionHistory, msgVars, log>>

\* fetchRandomQuestion(difficulty, topic): some question of the bank, or none
UserRequest_FetchQuestion(p) ==
    /\ pc[p] = "ur_fetchQuestion"
    /\ UNCHANGED obsVars
    /\ \E question \in QuestionIds \cup {NoQuestion} :
         IF question = NoQuestion
         THEN /\ log' = Emitted(log, <<Emit(loc[p].userRequest.socketId, "question_error", "request",
                                            loc[p].existingMatch.recordId),
                                       Emit(loc[p].existingMatch.socketId, "question_error", "request",
                                            loc[p].existingMatch.recordId)>>)
              /\ Goto(p, "ur_delete")
              /\ UNCHANGED loc
         ELSE /\ loc' = [loc EXCEPT ![p].question = question]
              /\ Goto(p, "ur_markExisting")
              /\ UNCHANGED log
    /\ UNCHANGED <<dbVars, msgVars>>

\* UserRequest_Delete that archives the candidate's record instead of deleting it
UserRequest_Delete_Archive(p) ==
    /\ pc[p] = "ur_delete"
    /\ UNCHANGED obsVars
    /\ IF Exists(loc[p].existingMatch)
       THEN matchRecord' = UpdateRow(loc[p].existingMatch.recordId, "isArchived", TRUE)
       ELSE UNCHANGED matchRecord
    /\ Finish(p)
    /\ UNCHANGED <<nextRecordId, sessionHistory, uuidCount, msgVars, log>>

UserRequest_Delete(p) ==
    /\ pc[p] = "ur_delete"
    /\ UNCHANGED obsVars
    /\ IF Exists(loc[p].existingMatch)
       THEN matchRecord' = [i \in DOMAIN matchRecord \ {loc[p].existingMatch.recordId}
                               |-> matchRecord[i]]
       ELSE UNCHANGED matchRecord
    /\ Finish(p)
    /\ UNCHANGED <<nextRecordId, sessionHistory, uuidCount, msgVars, log>>

\* MarkExisting that leaves matched as it was
MarkExisting_PendingOnly(id, userId) ==
    [matchRecord EXCEPT ![id] = [@ EXCEPT !.matchedUserId = userId,
                                          !.isPending = TRUE]]

\* data: { matched: true, matchedUserId: userId, isPending: true }
MarkExisting(id, userId) ==
    [matchRecord EXCEPT ![id] = [@ EXCEPT !.matched = TRUE,
                                          !.matchedUserId = userId,
                                          !.isPending = TRUE]]

UserRequest_MarkExisting(p) ==
    /\ pc[p] = "ur_markExisting"
    /\ UNCHANGED obsVars
    /\ IF Exists(loc[p].existingMatch)
       THEN /\ matchRecord' = MarkExisting(loc[p].existingMatch.recordId,
                                           loc[p].userRequest.userId)
            /\ Goto(p, "ur_createCurrent")
            /\ UNCHANGED loc
       ELSE /\ UNCHANGED matchRecord
            /\ Finish(p)
    /\ UNCHANGED <<nextRecordId, sessionHistory, uuidCount, msgVars, log>>

NewRow(req, roomNumber) ==
    [NullRow EXCEPT !.recordId = nextRecordId, !.userId = req.userId, !.topic = req.topic,
                    !.difficulty = req.difficulty, !.socketId = req.socketId,
                    !.roomNumber = roomNumber]

\* the requester's row of a pairing
CurrentRow(req, existingMatch, roomNumber, question) ==
    [NewRow(req, roomNumber) EXCEPT !.matched = TRUE,
                                    !.matchedUserId = existingMatch.userId,
                                    !.isPending = TRUE,
                                    !.questionId = question]

UserRequest_CreateCurrent(p) ==
    LET req == loc[p].userRequest
        existingMatch == loc[p].existingMatch
        current == CurrentRow(req, existingMatch, loc[p].roomNumber, loc[p].question)
    IN
    /\ pc[p] = "ur_createCurrent"
    /\ UNCHANGED obsVars
    /\ matchRecord' = (nextRecordId :> current) @@ matchRecord
    /\ nextRecordId' = nextRecordId + 1
    /\ log' = Emitted(log, <<Emit(req.socketId, "matched", "request", current.recordId),
                             Emit(existingMatch.socketId, "matched", "request",
                                  existingMatch.recordId)>>)
    /\ confirmDelayed' = confirmDelayed \cup {current.recordId, existingMatch.recordId}
    /\ Finish(p)
    /\ UNCHANGED <<sessionHistory, uuidCount, delayed, connected, closed>>

UserRequest_CreateWaiting(p) ==
    /\ pc[p] = "ur_createWaiting"
    /\ UNCHANGED obsVars
    /\ matchRecord' = (nextRecordId :> NewRow(loc[p].userRequest, loc[p].roomNumber))
                          @@ matchRecord
    /\ nextRecordId' = nextRecordId + 1
    /\ Finish(p)
    /\ UNCHANGED <<sessionHistory, uuidCount, msgVars, log>>

-----------------------------------------------------------------------------
(* handleMatchingConfirm *)

\* where { userId, isPending: true, isArchived: false }
PendingOf(u) == {r \in Rows : r.userId = u /\ r.isPending /\ ~r.isArchived}

\* where { matchedUserId: userId, isPending: true, isArchived: false }
PendingMatchedWith(u) == {r \in Rows : r.matchedUserId = u /\ r.isPending /\ ~r.isArchived}

Archive(id) == UpdateRow(id, "isArchived", TRUE)

Confirm_FindUserRecord(p, u) ==
    /\ FreeSlot(p)
    /\ \E userRecord \in FindFirst(PendingOf(u)) :
         loc' = [loc EXCEPT ![p] = [NullLocals EXCEPT !.userRequest.userId = u,
                                                     !.userRecord = userRecord]]
    /\ Goto(p, "c_findMatchedRecord")
    /\ UNCHANGED <<dbVars, msgVars, log>>

Confirm_FindMatchedRecord(p) ==
    /\ pc[p] = "c_findMatchedRecord"
    /\ UNCHANGED obsVars
    /\ \E matchedRecord \in FindFirst(PendingMatchedWith(loc[p].userRequest.userId)) :
         IF IsNull(matchedRecord) \/ IsNull(loc[p].userRecord)
         THEN IF ~IsNull(matchedRecord)
              THEN /\ loc' = [loc EXCEPT ![p].matchedRecord = matchedRecord]
                   /\ Goto(p, "c_archiveMatchedOnly")
              ELSE IF ~IsNull(loc[p].userRecord)
                   THEN /\ Goto(p, "c_archiveUserOnly")
                        /\ UNCHANGED loc
                   ELSE Finish(p)
         ELSE IF loc[p].userRecord.isConfirmed
              THEN Finish(p)
              ELSE /\ loc' = [loc EXCEPT ![p].matchedRecord = matchedRecord]
                   /\ Goto(p, "c_setConfirmed")
    /\ UNCHANGED <<dbVars, msgVars, log>>

\* one side is missing, the counterpart's row is present
Confirm_ArchiveMatchedOnly(p) ==
    /\ pc[p] = "c_archiveMatchedOnly"
    /\ UNCHANGED obsVars
    /\ IF Exists(loc[p].matchedRecord)
       THEN /\ matchRecord' = Archive(loc[p].matchedRecord.recordId)
            /\ log' = Emitted(log, <<Emit(loc[p].matchedRecord.socketId, "other_declined", "confirm",
                                     loc[p].matchedRecord.recordId)>>)
            /\ IF ~IsNull(loc[p].userRecord)
               THEN Goto(p, "c_archiveUserOnly") /\ UNCHANGED loc
               ELSE Finish(p)
       ELSE /\ UNCHANGED <<matchRecord, log>>
            /\ Finish(p)
    /\ UNCHANGED <<nextRecordId, sessionHistory, uuidCount, msgVars>>

\* one side is missing, the caller's row is present
Confirm_ArchiveUserOnly(p) ==
    /\ pc[p] = "c_archiveUserOnly"
    /\ UNCHANGED obsVars
    /\ IF Exists(loc[p].userRecord)
       THEN /\ matchRecord' = Archive(loc[p].userRecord.recordId)
            /\ log' = Emitted(log, <<Emit(loc[p].userRecord.socketId, "other_declined", "confirm",
                                     loc[p].userRecord.recordId)>>)
       ELSE UNCHANGED <<matchRecord, log>>
    /\ Finish(p)
    /\ UNCHANGED <<nextRecordId, sessionHistory, uuidCount, msgVars>>

Confirm_SetConfirmed(p) ==
    /\ pc[p] = "c_setConfirmed"
    /\ UNCHANGED obsVars
    /\ IF Exists(loc[p].userRecord)
       THEN /\ matchRecord' = UpdateRow(loc[p].userRecord.recordId, "isConfirmed", TRUE)
            /\ IF loc[p].matchedRecord.isConfirmed
               THEN /\ Goto(p, "c_archiveMatched")
                    /\ UNCHANGED <<loc, log>>
               ELSE /\ log' = Emitted(log, <<Emit(loc[p].matchedRecord.socketId, "other_accepted", "confirm",
                                     loc[p].matchedRecord.recordId)>>)
                    /\ Finish(p)
       ELSE /\ UNCHANGED <<matchRecord, log>>
            /\ Finish(p)
    /\ UNCHANGED <<nextRecordId, sessionHistory, uuidCount, msgVars>>

Confirm_ArchiveMatched(p) ==
    /\ pc[p] = "c_archiveMatched"
    /\ UNCHANGED obsVars
    /\ IF Exists(loc[p].matchedRecord)
       THEN /\ matchRecord' = Archive(loc[p].matchedRecord.recordId)
            /\ Goto(p, "c_archiveUser")
            /\ UNCHANGED loc
       ELSE /\ UNCHANGED matchRecord
            /\ Finish(p)
    /\ UNCHANGED <<nextRecordId, sessionHistory, uuidCount, msgVars, log>>

Confirm_ArchiveUser(p) ==
    /\ pc[p] = "c_archiveUser"
    /\ UNCHANGED obsVars
    /\ IF Exists(loc[p].userRecord)
       THEN /\ matchRecord' = Archive(loc[p].userRecord.recordId)
            /\ Goto(p, "c_createSession")
            /\ UNCHANGED loc
       ELSE /\ UNCHANGED matchRecord
            /\ Finish(p)
    /\ UNCHANGED <<nextRecordId, sessionHistory, uuidCount, msgVars, log>>

\* questionId: matchedRecord.questionId ?? userRecord.questionId ?? 0
SessionQuestionId(userRecord, matchedRecord) ==
    IF matchedRecord.questionId # NoQuestion THEN matchedRecord.questionId
    ELSE IF userRecord.questionId # NoQuestion THEN userRecord.questionId
    ELSE 0

SessionRow(userRecord, matchedRecord) ==
    [roomNumber |-> matchedRecord.roomNumber,
     questionId |-> SessionQuestionId(userRecord, matchedRecord),
     isOngoing |-> TRUE,
     userOneId |-> userRecord.userId,
     userTwoId |-> matchedRecord.userId]

Confirm_CreateSession(p) ==
    /\ pc[p] = "c_createSession"
    /\ UNCHANGED obsVars
    /\ sessionHistory' = Append(sessionHistory,
                                SessionRow(loc[p].userRecord, loc[p].matchedRecord))
    /\ log' = Emitted(log, <<Emit(loc[p].userRecord.socketId, "matching_success", "confirm",
                                     loc[p].userRecord.recordId),
                             Emit(loc[p].matchedRecord.socketId, "matching_success", "confirm",
                                     loc[p].matchedRecord.recordId)>>)
    /\ Finish(p)
    /\ UNCHANGED <<matchRecord, nextRecordId, uuidCount, msgVars>>

-----------------------------------------------------------------------------
(* handleMatchingDecline *)

Decline_FindUserRecord(p, u) ==
    /\ FreeSlot(p)
    /\ \E userRecord \in FindFirst(PendingOf(u)) :
         loc' = [loc EXCEPT ![p] = [NullLocals EXCEPT !.userRequest.userId = u,
                                                     !.userRecord = userRecord]]
    /\ Goto(p, "d_findMatchedRecord")
    /\ UNCHANGED <<dbVars, msgVars, log>>

Decline_FindMatchedRecord(p) ==
    /\ pc[p] = "d_findMatchedRecord"
    /\ UNCHANGED obsVars
    /\ \E matchedRecord \in FindFirst(PendingMatchedWith(loc[p].userRequest.userId)) :
         IF IsNull(matchedRecord) \/ IsNull(loc[p].userRecord)
         THEN IF ~IsNull(matchedRecord)
              THEN /\ loc' = [loc EXCEPT ![p].matchedRecord = matchedRecord]
                   /\ Goto(p, "d_archiveMatchedOnly")
              ELSE IF ~IsNull(loc[p].userRecord)
                   THEN /\ Goto(p, "d_archiveUserOnly")
                        /\ UNCHANGED loc
                   ELSE Finish(p)
         ELSE /\ loc' = [loc EXCEPT ![p].matchedRecord = matchedRecord]
              /\ Goto(p, "d_archiveUser")
    /\ UNCHANGED <<dbVars, msgVars, log>>

Decline_ArchiveMatchedOnly(p) ==
    /\ pc[p] = "d_archiveMatchedOnly"
    /\ UNCHANGED obsVars
    /\ IF Exists(loc[p].matchedRecord)
       THEN /\ matchRecord' = Archive(loc[p].matchedRecord.recordId)
            /\ log' = Emitted(log, <<Emit(loc[p].matchedRecord.socketId, "other_declined", "decline",
                                     loc[p].matchedRecord.recordId),
                                     Emit(loc[p].matchedRecord.socketId, "matching_fail", "decline",
                                     loc[p].matchedRecord.recordId)>>)
            /\ IF ~IsNull(loc[p].userRecord)
               THEN Goto(p, "d_archiveUserOnly") /\ UNCHANGED loc
               ELSE Finish(p)
       ELSE /\ UNCHANGED <<matchRecord, log>>
            /\ Finish(p)
    /\ UNCHANGED <<nextRecordId, sessionHistory, uuidCount, msgVars>>

Decline_ArchiveUserOnly(p) ==
    /\ pc[p] = "d_archiveUserOnly"
    /\ UNCHANGED obsVars
    /\ IF Exists(loc[p].userRecord)
       THEN /\ matchRecord' = Archive(loc[p].userRecord.recordId)
            /\ log' = Emitted(log, <<Emit(loc[p].userRecord.socketId, "other_declined", "decline",
                                     loc[p].userRecord.recordId),
                                     Emit(loc[p].userRecord.socketId, "matching_fail", "decline",
                                     loc[p].userRecord.recordId)>>)
       ELSE UNCHANGED <<matchRecord, log>>
    /\ Finish(p)
    /\ UNCHANGED <<nextRecordId, sessionHistory, uuidCount, msgVars>>

Decline_ArchiveUser(p) ==
    /\ pc[p] = "d_archiveUser"
    /\ UNCHANGED obsVars
    /\ IF Exists(loc[p].userRecord)
       THEN /\ matchRecord' = Archive(loc[p].userRecord.recordId)
            /\ log' = Emitted(log, <<Emit(loc[p].matchedRecord.socketId, "other_declined", "decline",
                                     loc[p].matchedRecord.recordId)>>)
            /\ Goto(p, "d_archiveMatched")
            /\ UNCHANGED loc
       ELSE /\ UNCHANGED <<matchRecord, log>>
            /\ Finish(p)
    /\ UNCHANGED <<nextRecordId, sessionHistory, uuidCount, msgVars>>

Decline_ArchiveMatched(p) ==
    /\ pc[p] = "d_archiveMatched"
    /\ UNCHANGED obsVars
    /\ IF Exists(loc[p].matchedRecord)
       THEN /\ matchRecord' = Archive(loc[p].matchedRecord.recordId)
            /\ log' = Emitted(log, <<Emit(loc[p].userRecord.socketId, "matching_fail", "decline",
                                     loc[p].userRecord.recordId),
                                     Emit(loc[p].matchedRecord.socketId, "matching_fail", "decline",
                                     loc[p].matchedRecord.recordId)>>)
       ELSE UNCHANGED <<matchRecord, log>>
    /\ Finish(p)
    /\ UNCHANGED <<nextRecordId, sessionHistory, uuidCount, msgVars>>

-----------------------------------------------------------------------------
(* handleTimeout: a delivered "timeout" message.  Delivery is at least once, so a    *)
(* delivered message stays deliverable.                                             *)

\* TimeoutTargets without the isPending: false filter
TimeoutTargets_AnyPending(m) ==
    {r \in Rows : r.userId = m.userId /\ ~r.isArchived /\ r.socketId = m.socketId}

\* where { userId, isPending: false, isArchived: false, socketId }
TimeoutTargets(m) == {r \in OutstandingOf(m.userId) : r.socketId = m.socketId}

Timeout_Find(p, m) ==
    /\ FreeSlot(p)
    /\ m \in delayed
    /\ \E result \in FindFirst(TimeoutTargets(m)) :
         IF ~IsNull(result)
         THEN /\ IF result.matched = FALSE
                 THEN log' = Emitted(log, <<Emit(m.socketId, "timeout", "timeout", result.recordId)>>)
                 ELSE UNCHANGED log
              /\ loc' = [loc EXCEPT ![p] = [NullLocals EXCEPT !.userRequest.userId = m.userId,
                                                              !.userRequest.socketId = m.socketId,
                                                              !.result = result]]
              /\ Goto(p, "t_archive")
         ELSE /\ UNCHANGED <<log, pc, loc>>
    /\ UNCHANGED <<dbVars, msgVars>>

Timeout_Archive(p) ==
    /\ pc[p] = "t_archive"
    /\ UNCHANGED obsVars
    /\ IF Exists(loc[p].result)
       THEN matchRecord' = Archive(loc[p].result.recordId)
       ELSE UNCHANGED matchRecord
    /\ Finish(p)
    /\ UNCHANGED <<nextRecordId, sessionHistory, uuidCount, msgVars, log>>

-----------------------------------------------------------------------------
(* handleConfirmTimeout: a delivered "confirm_timeout" message *)

\* findUnique({ where: { recordId } })
FindUnique(id) == IF id \in DOMAIN matchRecord THEN matchRecord[id] ELSE NullRow

\* ConfirmTimeout_Find that leaves a confirmed record alone
ConfirmTimeout_Find_UnconfirmedOnly(p, recordId) ==
    /\ FreeSlot(p)
    /\ recordId \in confirmDelayed
    /\ LET result == FindUnique(recordId) IN
         IF ~IsNull(result) /\ ~result.isArchived /\ ~result.isConfirmed
         THEN /\ log' = Emitted(log, <<Emit(result.socketId, "matching_fail", "confirm_timeout",
                                           result.recordId)>>)
              /\ loc' = [loc EXCEPT ![p] = [NullLocals EXCEPT !.recordId = recordId,
                                                              !.result = result]]
              /\ Goto(p, "ct_archive")
         ELSE /\ UNCHANGED <<log, pc, loc>>
    /\ UNCHANGED <<dbVars, msgVars>>

ConfirmTimeout_Find(p, recordId) ==
    /\ FreeSlot(p)
    /\ recordId \in confirmDelayed
    /\ LET result == FindUnique(recordId) IN
         IF ~IsNull(result) /\ ~result.isArchived
         THEN /\ log' = Emitted(log, <<Emit(result.socketId, "matching_fail", "confirm_timeout",
                                           result.recordId)>>)
              /\ loc' = [loc EXCEPT ![p] = [NullLocals EXCEPT !.recordId = recordId,
                                                              !.result = result]]
              /\ Goto(p, "ct_archive")
         ELSE /\ UNCHANGED <<log, pc, loc>>
    /\ UNCHANGED <<dbVars, msgVars>>

ConfirmTimeout_Archive(p) ==
    /\ pc[p] = "ct_archive"
    /\ UNCHANGED obsVars
    /\ IF loc[p].recordId \in DOMAIN matchRecord
       THEN matchRecord' = Archive(loc[p].recordId)
       ELSE UNCHANGED matchRecord
    /\ Finish(p)
    /\ UNCHANGED <<nextRecordId, sessionHistory, uuidCount, msgVars, log>>

-----------------------------------------------------------------------------
(* handleDisconnected: socket.on('disconnect') in server.ts *)

Disconnected_FindMany(p, socketId) ==
    /\ FreeSlot(p)
    /\ socketId \in connected
    /\ connected' = connected \ {socketId}
    /\ closed' = closed \cup {socketId}
    /\ loc' = [loc EXCEPT ![p] = [NullLocals EXCEPT !.userRequest.socketId = socketId]]
    /\ Goto(p, "dc_updateMany")
    /\ UNCHANGED <<dbVars, delayed, confirmDelayed, log>>

\* ArchiveAll that skips pending records
ArchiveAll_WaitingOnly(socketId) ==
    [i \in DOMAIN matchRecord |->
        IF matchRecord[i].socketId = socketId /\ ~matchRecord[i].isPending
        THEN [matchRecord[i] EXCEPT !.isArchived = TRUE]
        ELSE matchRecord[i]]

\* updateMany({ where: { socketId }, data: { isArchived: true } })
ArchiveAll(socketId) ==
    [i \in DOMAIN matchRecord |->
        IF matchRecord[i].socketId = socketId
        THEN [matchRecord[i] EXCEPT !.isArchived = TRUE]
        ELSE matchRecord[i]]

Disconnected_UpdateMany(p) ==
    /\ pc[p] = "dc_updateMany"
    /\ UNCHANGED obsVars
    /\ matchRecord' = ArchiveAll(loc[p].userRequest.socketId)
    /\ Finish(p)
    /\ UNCHANGED <<nextRecordId, sessionHistory, uuidCount, msgVars, log>>

-----------------------------------------------------------------------------
(* Specifications *)

\* a handler that starts while another one runs counts as an overlap
Overlap ==
    IF AllIdle THEN UNCHANGED overlaps
    ELSE overlaps < MaxOverlaps /\ overlaps' = overlaps + 1

\* one more handler run, of at most max
Event(max) == events < max /\ events' = events + 1

Dispatch == Event(MaxEvents) /\ Overlap /\ UNCHANGED hist

\* an event arrives and its handler starts
OnMatchingRequest(p, req) == UserRequest_FindUser(p, req) /\ Dispatch
OnConfirm(p, u) == Confirm_FindUserRecord(p, u) /\ Dispatch
OnDecline(p, u) == Decline_FindUserRecord(p, u) /\ Dispatch
OnTimeout(p, m) == Timeout_Find(p, m) /\ Dispatch
OnConfirmTimeout(p, recordId) == ConfirmTimeout_Find(p, recordId) /\ Dispatch
OnDisconnect(p, socketId) == Disconnected_FindMany(p, socketId) /\ Dispatch

\* a running handler takes its next step
Step(p) ==
    \/ UserRequest_UpdateSocket(p)
    \/ UserRequest_PreviousMatches(p)
    \/ \E n \in 1..4 : UserRequest_Attempt(p, n)
    \/ UserRequest_FetchQuestion(p)
    \/ UserRequest_Delete(p)
    \/ UserRequest_MarkExisting(p)
    \/ UserRequest_CreateCurrent(p)
    \/ UserRequest_CreateWaiting(p)
    \/ Confirm_FindMatchedRecord(p)
    \/ Confirm_ArchiveMatchedOnly(p)
    \/ Confirm_ArchiveUserOnly(p)
    \/ Confirm_SetConfirmed(p)
    \/ Confirm_ArchiveMatched(p)
    \/ Confirm_ArchiveUser(p)
    \/ Confirm_CreateSession(p)
    \/ Decline_FindMatchedRecord(p)
    \/ Decline_ArchiveMatchedOnly(p)
    \/ Decline_ArchiveUserOnly(p)
    \/ Decline_ArchiveUser(p)
    \/ Decline_ArchiveMatched(p)
    \/ Timeout_Archive(p)
    \/ ConfirmTimeout_Archive(p)
    \/ Disconnected_UpdateMany(p)

Next ==
    \E p \in Procs :
        \/ \E req \in RequestInputs : OnMatchingRequest(p, req)
        \/ \E u \in Users : OnConfirm(p, u)
        \/ \E u \in Users : OnDecline(p, u)
        \/ \E m \in delayed : OnTimeout(p, m)
        \/ \E recordId \in confirmDelayed : OnConfirmTimeout(p, recordId)
        \/ \E socketId \in Sockets : OnDisconnect(p, socketId)
        \/ Step(p)

Spec == Init /\ [][Next]_vars

-----------------------------------------------------------------------------
(* SpecSerial: one handler at a time.  hist holds the run in progress or last        *)
(* completed, with the store and the log as they were when it started; two           *)
(* consecutive runs of handleMatchingConfirm are both kept.                          *)

Run(op, userId, socketId, recordId) ==
    [op |-> op, userId |-> userId, socketId |-> socketId, recordId |-> recordId,
     matchRecord |-> matchRecord, sessionHistory |-> sessionHistory, log |-> log,
     confirmDelayed |-> confirmDelayed]

Observe(run) ==
    hist' = IF run.op = "confirm" /\ hist # <<>> /\ hist[Len(hist)].op = "confirm"
            THEN <<hist[Len(hist)], run>>
            ELSE <<run>>

DispatchSerial(run) == Event(MaxEventsSerial) /\ UNCHANGED overlaps /\ Observe(run)

SerialMatchingRequest(req) ==
    /\ UserRequest_FindUser(1, req)
    /\ DispatchSerial(Run("request", req.userId, req.socketId, NoRecord))
SerialConfirm(u) ==
    /\ Confirm_FindUserRecord(1, u)
    /\ DispatchSerial(Run("confirm", u, NoSocket, NoRecord))
SerialDecline(u) ==
    /\ Decline_FindUserRecord(1, u)
    /\ DispatchSerial(Run("decline", u, NoSocket, NoRecord))
SerialTimeout(m) ==
    /\ Timeout_Find(1, m)
    /\ DispatchSerial(Run("timeout", m.userId, m.socketId, NoRecord))
SerialConfirmTimeout(recordId) ==
    /\ ConfirmTimeout_Find(1, recordId)
    /\ DispatchSerial(Run("confirm_timeout", NoUser, NoSocket, recordId))
SerialDisconnect(socketId) ==
    /\ Disconnected_FindMany(1, socketId)
    /\ DispatchSerial(Run("disconnect", NoUser, socketId, NoRecord))

NextSerial ==
    \/ \E req \in RequestInputs : SerialMatchingRequest(req)
    \/ \E u \in Users : SerialConfirm(u)
    \/ \E u \in Users : SerialDecline(u)
    \/ \E m \in delayed : SerialTimeout(m)
    \/ \E recordId \in confirmDelayed : SerialConfirmTimeout(recordId)
    \/ \E socketId \in Sockets : SerialDisconnect(socketId)
    \/ Step(1)

SpecSerial == Init /\ [][NextSerial]_vars

-----------------------------------------------------------------------------
(* SpecSelect: candidate selection.  The store starts as earlier events can have     *)
(* left it: optionally a completed session of A and B with their archived records,   *)
(* then records of B and C that wait, are archived, or are paired with each other.   *)
(* A sends up to MaxEventsSelect requests, the second possibly while the first is    *)
(* being handled.                                                                    *)

MaxEventsSelect == 2

SelectTopics == {"arrays", "graphs"}
SelectDifficulties == {"easy", "hard"}
SelectInputs == {req \in RequestInputs : req.userId = "A"}

SocketOf(u) == IF u = "A" THEN "sA" ELSE IF u = "B" THEN "sB" ELSE "sC"

\* a record as handleUserRequest creates it for a user who has to wait
WaitingRow(id, u, topic, difficulty) ==
    [NullRow EXCEPT !.recordId = id, !.userId = u, !.topic = topic,
                    !.difficulty = difficulty, !.socketId = SocketOf(u), !.roomNumber = id]

\* a waiting record that a later request of user v has paired
CandidateRow(id, u, v) ==
    [WaitingRow(id, u, "arrays", "easy") EXCEPT !.matched = TRUE, !.matchedUserId = v,
                                                !.isPending = TRUE]

\* the records of a pair u (who waited), v (who asked later) and their state once
\* both have confirmed
PairRows(id, u, v) ==
    <<CandidateRow(id, u, v),
      [CandidateRow(id + 1, v, u) EXCEPT !.questionId = 1]>>
DoneRows(id, u, v) ==
    [i \in 1..2 |-> [PairRows(id, u, v)[i] EXCEPT !.isConfirmed = TRUE, !.isArchived = TRUE]]

\* the records that follow n earlier ones
SelectBodies(n) ==
    LET One(id, u) == {[WaitingRow(id, u, t, d) EXCEPT !.isArchived = a] :
                          t \in SelectTopics, d \in SelectDifficulties, a \in BOOLEAN}
    IN {<<>>, PairRows(n + 1, "B", "C")}
         \cup {<<r>> : r \in One(n + 1, "B") \cup One(n + 1, "C")}
         \cup {<<r1, r2>> : r1 \in One(n + 1, "B"), r2 \in One(n + 2, "C")}

InitSelect ==
    /\ \E done \in BOOLEAN :
         LET prefix == IF done THEN DoneRows(1, "A", "B") ELSE <<>> IN
         /\ \E body \in SelectBodies(Len(prefix)) : matchRecord = prefix \o body
         /\ sessionHistory = IF done THEN <<SessionRow(prefix[2], prefix[1])>> ELSE <<>>
    /\ nextRecordId = Len(matchRecord) + 1
    /\ uuidCount = Len(matchRecord)
    /\ delayed = {[userId |-> r.userId, socketId |-> r.socketId] : r \in Rows}
    /\ confirmDelayed = {r.recordId : r \in {x \in Rows : x.matched}}
    /\ connected = {r.socketId : r \in Rows}
    /\ closed = {}
    /\ overlaps = 0
    /\ events = 0
    /\ log = <<>>
    /\ pc = [p \in Procs |-> "idle"]
    /\ loc = [p \in Procs |-> NullLocals]
    /\ hist = <<>>

\* a request of A arrives while no handler runs
SelectRequest(req) ==
    /\ UserRequest_FindUser(1, req)
    /\ Event(MaxEventsSelect) /\ UNCHANGED overlaps
    /\ Observe(Run("request", req.userId, req.socketId, NoRecord))

\* a request of A arrives while the first one is being handled
SelectOverlap(req) ==
    /\ UserRequest_FindUser(2, req)
    /\ Event(MaxEventsSelect) /\ Overlap /\ UNCHANGED hist

NextSelect ==
    \/ \E req \in SelectInputs : SelectRequest(req)
    \/ \E req \in SelectInputs : SelectOverlap(req)
    \/ \E p \in Procs :
          \/ UserRequest_UpdateSocket(p)
          \/ UserRequest_PreviousMatches(p)
          \/ \E n \in 1..4 : UserRequest_Attempt(p, n)
          \/ UserRequest_FetchQuestion(p)
          \/ UserRequest_Delete(p)
          \/ UserRequest_MarkExisting(p)
          \/ UserRequest_CreateCurrent(p)
          \/ UserRequest_CreateWaiting(p)

SpecSelect == InitSelect /\ [][NextSelect]_vars

-----------------------------------------------------------------------------
(* SpecExpiry: one handler at a time, and the delayed exchange delivers every        *)
(* message it was handed, once.  hist.pending holds the "timeout" messages not yet   *)
(* delivered, in the order they were handed over, each with the value of             *)
(* nextRecordId at that moment; hist.done holds the recordIds whose                  *)
(* "confirm_timeout" message was delivered.  Messages with the same payload and the  *)
(* same delay are delivered in the order they were handed over.  Client events are   *)
(* of A and B only and limited to MaxEventsExpiry; deliveries are not limited.       *)

MaxEventsExpiry == 4

\* the clients of this specification: A, on either of its connections, and B
ExpiryUsers == {"A", "B"}
ExpiryInputs == {req \in RequestInputs : req.userId \in ExpiryUsers}
ExpirySockets == {req.socketId : req \in ExpiryInputs}

InitExpiry ==
    /\ matchRecord = <<>>
    /\ nextRecordId = 1
    /\ sessionHistory = <<>>
    /\ uuidCount = 0
    /\ delayed = {}
    /\ confirmDelayed = {}
    /\ connected = {}
    /\ closed = {}
    /\ overlaps = 0
    /\ events = 0
    /\ log = <<>>
    /\ pc = [p \in Procs |-> "idle"]
    /\ loc = [p \in Procs |-> NullLocals]
    /\ hist = [pending |-> <<>>, done |-> {}]

ClientEvent == Event(MaxEventsExpiry) /\ UNCHANGED overlaps

\* sendDelayedMessage(userRequest, DELAY_TIME)
Scheduled(req) ==
    [userId |-> req.userId, socketId |-> req.socketId, born |-> nextRecordId]

ExpiryRequest(req) ==
    /\ UserRequest_FindUser(1, req)
    /\ ClientEvent
    /\ hist' = [hist EXCEPT !.pending = Append(@, Scheduled(req))]
ExpiryConfirm(u) == Confirm_FindUserRecord(1, u) /\ ClientEvent /\ UNCHANGED hist
ExpiryDecline(u) == Decline_FindUserRecord(1, u) /\ ClientEvent /\ UNCHANGED hist
ExpiryDisconnect(socketId) ==
    Disconnected_FindMany(1, socketId) /\ ClientEvent /\ UNCHANGED hist

\* pending message i is the oldest one with its payload
Oldest(i) ==
    \A j \in 1..(i - 1) : TimeoutMessage(hist.pending[j]) # TimeoutMessage(hist.pending[i])

RemoveAt(q, i) == SubSeq(q, 1, i - 1) \o SubSeq(q, i + 1, Len(q))

\* the delayed exchange delivers pending "timeout" message i
ExpiryTimeout(i) ==
    /\ Oldest(i)
    /\ Timeout_Find(1, TimeoutMessage(hist.pending[i]))
    /\ hist' = [hist EXCEPT !.pending = RemoveAt(@, i)]
    /\ UNCHANGED <<events, overlaps>>

\* the delayed exchange delivers the "confirm_timeout" message of recordId
ExpiryConfirmTimeout(recordId) ==
    /\ recordId \notin hist.done
    /\ ConfirmTimeout_Find(1, recordId)
    /\ hist' = [hist EXCEPT !.done = @ \cup {recordId}]
    /\ UNCHANGED <<events, overlaps>>

\* a delayed message is delivered, or the running handler takes its next step
ExpiryProgress ==
    \/ \E i \in 1..Len(hist.pending) : ExpiryTimeout(i)
    \/ \E recordId \in confirmDelayed : ExpiryConfirmTimeout(recordId)
    \/ Step(1)

NextExpiry ==
    \/ \E req \in ExpiryInputs : ExpiryRequest(req)
    \/ \E u \in ExpiryUsers : ExpiryConfirm(u)
    \/ \E u \in ExpiryUsers : ExpiryDecline(u)
    \/ \E socketId \in ExpirySockets : ExpiryDisconnect(socketId)
    \/ \E i \in 1..Len(hist.pending) : ExpiryTimeout(i)
    \/ \E recordId \in confirmDelayed : ExpiryConfirmTimeout(recordId)
    \/ Step(1)

SpecExpiry == InitExpiry /\ [][NextExpiry]_vars /\ WF_vars(ExpiryProgress)

-----------------------------------------------------------------------------
(* Properties *)

Live == {r \in Rows : ~r.isArchived}

\* rows x and y name each other
Reciprocal(x, y) == x.userId = y.matchedUserId /\ y.userId = x.matchedUserId

\* C1: every userId has at most one match record with isArchived = false, in every
\* reachable state, whatever the sequence and interleaving of events.
C1_OneLiveRecordPerUser ==
    \A u \in Users : Cardinality({r \in Live : r.userId = u}) <= 1

\* C2: whenever no handler is in the middle of a run, every record with matched = true
\* has a counterpart that names it back and has the same roomNumber and questionId.
C2_CounterpartAgrees ==
    AllIdle =>
        \A r \in Rows :
            r.matched =>
                \E c \in Rows : /\ Reciprocal(r, c)
                                /\ c.roomNumber = r.roomNumber
                                /\ c.questionId = r.questionId

\* C5: no two live records of different users are matched with the same user, and
\* (between handler runs) a live matched record names a user whose record names it back.
C5_CandidatePairedOnce ==
    /\ \A r1, r2 \in Live :
          (r1.matched /\ r2.matched /\ r1.userId # r2.userId)
              => r1.matchedUserId # r2.matchedUserId
    /\ AllIdle => \A x \in Live : x.matched => \E c \in Rows : Reciprocal(x, c)

\* C6: archival is terminal: a step of any handler leaves every archived record in
\* the table with all its fields as they were.
C6_ArchivedNeverChanges ==
    [][\A i \in DOMAIN matchRecord :
          matchRecord[i].isArchived =>
              i \in DOMAIN matchRecord' /\ matchRecord'[i] = matchRecord[i]]_vars

\* sessions s and t belong to one pairing: the same two users, and room numbers of
\* the same record or of two records that name each other
SamePairing(s, t) ==
    /\ {s.userOneId, s.userTwoId} = {t.userOneId, t.userTwoId}
    /\ \/ s.roomNumber = t.roomNumber
       \/ \E x, y \in Rows : /\ x.roomNumber = s.roomNumber
                             /\ y.roomNumber = t.roomNumber
                             /\ Reciprocal(x, y)

\* C7: a step that creates a SessionHistoryRecord for (u1, u2) finds a record of u1 and
\* a record of u2 that name each other, both with isConfirmed = true, and no earlier
\* SessionHistoryRecord of the same pairing.
C7_SessionOnlyWhenBothConfirmed ==
    [][Len(sessionHistory') > Len(sessionHistory) =>
          LET s == sessionHistory'[Len(sessionHistory')] IN
          /\ \E x, y \in Rows : /\ x.userId = s.userOneId
                                /\ y.userId = s.userTwoId
                                /\ Reciprocal(x, y)
                                /\ matchRecord'[x.recordId].isConfirmed
                                /\ matchRecord'[y.recordId].isConfirmed
          /\ \A i \in 1..Len(sessionHistory) : ~SamePairing(sessionHistory[i], s)]_vars

-----------------------------------------------------------------------------
(* Properties of single handler runs, stated over SpecSerial with hist *)

RowsOf(db) == {db[i] : i \in DOMAIN db}

RECURSIVE SumOver(_, _)
SumOver(S, l) ==
    IF S = {} THEN 0
    ELSE LET e == CHOOSE x \in S : TRUE IN l[e] + SumOver(S \ {e}, l)

\* number of notifications `event` in log l, and of those sent to handle `to`
Total(l, event) == SumOver({e \in DOMAIN l : e.event = event}, l)
Sent(l, to, event) == SumOver({e \in DOMAIN l : e.event = event /\ e.to = to}, l)
Size(l) == SumOver(DOMAIN l, l)

\* the pairs (record of a, record of b) of db that are paired and pending
PairedPendingIn(db, a, b) ==
    {pr \in RowsOf(db) \X RowsOf(db) :
        /\ pr[1].userId = a /\ pr[2].userId = b
        /\ Reciprocal(pr[1], pr[2])
        /\ pr[1].isPending /\ pr[2].isPending
        /\ ~pr[1].isArchived /\ ~pr[2].isArchived}

LastRun == hist[Len(hist)]
\* the last handler run, an `op`, has returned
Ran(op) == AllIdle /\ hist # <<>> /\ LastRun.op = op
\* the last two handler runs were handleMatchingConfirm, and the second has returned
RanTwoConfirms == AllIdle /\ Len(hist) = 2

\* the pairs of records of a and b that are paired and pending, neither confirmed
Undecided(db, a, b) ==
    {pr \in PairedPendingIn(db, a, b) : ~pr[1].isConfirmed /\ ~pr[2].isConfirmed}

\* C3: after confirm(a) then confirm(b), for any order of any two users with records
\* paired and pending and neither confirmed: both records of such a pair are archived,
\* exactly one SessionHistoryRecord was added, for {a, b} with the pair's questionId,
\* and exactly two matching_success were sent, one to each record's handle.
C3_DoubleConfirmCommutes ==
    LET a == hist[1].userId
        b == hist[2].userId
        pre == hist[1]
    IN (RanTwoConfirms /\ a # b /\ Undecided(pre.matchRecord, a, b) # {}) =>
          /\ Len(sessionHistory) = Len(pre.sessionHistory) + 1
          /\ Total(log, "matching_success") = Total(pre.log, "matching_success") + 2
          /\ \E pr \in Undecided(pre.matchRecord, a, b) :
                /\ matchRecord[pr[1].recordId].isArchived
                /\ matchRecord[pr[2].recordId].isArchived
                /\ LET s == sessionHistory[Len(sessionHistory)] IN
                     /\ {s.userOneId, s.userTwoId} = {a, b}
                     /\ s.questionId \in {pr[1].questionId, pr[2].questionId} \ {NoQuestion}
                /\ Sent(log, pr[1].socketId, "matching_success")
                      = Sent(pre.log, pr[1].socketId, "matching_success") + 1
                /\ Sent(log, pr[2].socketId, "matching_success")
                      = Sent(pre.log, pr[2].socketId, "matching_success") + 1

\* C4: after confirm(a) twice in a row, where a pending record of a was paired with a
\* pending record of some b and neither was confirmed: the first run set isConfirmed
\* on a's record and sent one other_accepted to b's handle and did nothing else, and
\* the second run changed no record, created no session and sent nothing.
C4_ConfirmTwiceIsOnce ==
    LET a == hist[1].userId
        first == hist[1]
        second == hist[2]
        pairs == UNION {Undecided(first.matchRecord, a, b) : b \in Users \ {a}}
    IN (RanTwoConfirms /\ a = second.userId /\ pairs # {}) =>
          /\ \E pr \in pairs :
                /\ second.matchRecord
                      = [first.matchRecord EXCEPT ![pr[1].recordId].isConfirmed = TRUE]
                /\ Sent(second.log, pr[2].socketId, "other_accepted")
                      = Sent(first.log, pr[2].socketId, "other_accepted") + 1
          /\ Size(second.log) = Size(first.log) + 1
          /\ second.sessionHistory = first.sessionHistory
          /\ matchRecord = second.matchRecord
          /\ sessionHistory = second.sessionHistory
          /\ log = second.log

\* number of matching_fail notifications the confirm-timeout handler sent for record id
ConfirmTimeoutFails(id) ==
    SumOver({e \in DOMAIN log : /\ e.event = "matching_fail"
                                /\ e.by = "confirm_timeout"
                                /\ e.record = id}, log)

\* C8: handling confirm_timeout for a record that is missing or archived changes no
\* record, creates no session and sends nothing; and over all deliveries the
\* confirm-timeout handler sends at most one matching_fail for each record.
C8_ConfirmTimeoutOnce ==
    /\ [][\A p \in Procs : \A id \in confirmDelayed :
            (ConfirmTimeout_Find(p, id) /\ (IsNull(FindUnique(id)) \/ FindUnique(id).isArchived))
                => UNCHANGED <<matchRecord, sessionHistory, log, pc>>]_vars
    /\ [](\A id \in 1..(nextRecordId - 1) : ConfirmTimeoutFails(id) <= 1)

\* the records a run of handleTimeout may archive: of that user and handle, unmatched,
\* not pending, not archived
Unmatched(run) ==
    {r \in RowsOf(run.matchRecord) : /\ r.userId = run.userId
                                     /\ r.socketId = run.socketId
                                     /\ ~r.matched /\ ~r.isPending /\ ~r.isArchived}

\* C9: a run of handleTimeout for (userId, socketId) left every matched or pending
\* record as it was and created no session; if the user had no unmatched record on
\* that handle it changed nothing and sent nothing, otherwise it archived one such
\* record and sent one timeout to the handle, and nothing else.
C9_TimeoutLeavesMatchAlone ==
    Ran("timeout") =>
        /\ \A i \in DOMAIN LastRun.matchRecord :
              (LastRun.matchRecord[i].matched \/ LastRun.matchRecord[i].isPending) =>
                  i \in DOMAIN matchRecord /\ matchRecord[i] = LastRun.matchRecord[i]
        /\ sessionHistory = LastRun.sessionHistory
        /\ IF Unmatched(LastRun) = {}
           THEN matchRecord = LastRun.matchRecord /\ log = LastRun.log
           ELSE \E r \in Unmatched(LastRun) :
                   /\ matchRecord = [LastRun.matchRecord EXCEPT ![r.recordId].isArchived = TRUE]
                   /\ log = Emitted(LastRun.log,
                                    <<Emit(LastRun.socketId, "timeout", "timeout", r.recordId)>>)

\* C9 witness: the request timeout of a user fired while that user's record was
\* matched and pending.
C9_Witness ==
    /\ Ran("timeout")
    /\ \E r \in RowsOf(LastRun.matchRecord) :
          /\ r.userId = LastRun.userId /\ r.socketId = LastRun.socketId
          /\ r.matched /\ r.isPending /\ ~r.isArchived

\* every record of x's counterpart that names x's user is archived, and there is one
CounterpartArchived(db, x) ==
    LET cs == {y \in RowsOf(db) : y.userId = x.matchedUserId /\ y.matchedUserId = x.userId}
    IN cs # {} /\ \A y \in cs : y.isArchived

\* the pending records of run.userId whose counterpart's record is archived
Abandoned(run) ==
    {x \in RowsOf(run.matchRecord) : /\ x.userId = run.userId
                                     /\ x.isPending /\ ~x.isArchived
                                     /\ CounterpartArchived(run.matchRecord, x)}

\* C10: after confirm(a), where a had a pending record whose counterpart's record was
\* archived: such a record of a is archived, one other_declined was sent to its
\* handle, no session was created and no matching_success was sent.
C10_ConfirmAfterCounterpartArchived ==
    (Ran("confirm") /\ Abandoned(LastRun) # {}) =>
        /\ \E x \in Abandoned(LastRun) :
              /\ matchRecord[x.recordId].isArchived
              /\ Sent(log, x.socketId, "other_declined")
                    = Sent(LastRun.log, x.socketId, "other_declined") + 1
        /\ sessionHistory = LastRun.sessionHistory
        /\ Total(log, "matching_success") = Total(LastRun.log, "matching_success")

-----------------------------------------------------------------------------
(* Frame properties of single handler runs (SpecSerial) *)

\* the records of run.userId that were neither pending nor archived when the run started
Outstanding(run) ==
    {r \in RowsOf(run.matchRecord) : r.userId = run.userId /\ ~r.isPending /\ ~r.isArchived}

\* C11: a matching_request of a user who had a non-archived, non-pending record never
\* reaches candidate selection, and when it has returned: no record was created, no
\* session was created, no confirm-timeout was scheduled; if the record's handle was
\* another one, that handle got one duplicate socket notification and only the
\* record's socketId changed; if it was the same, nothing changed and nothing was sent.
C11_DuplicateRequestFenced ==
    (hist # <<>> /\ LastRun.op = "request" /\ Outstanding(LastRun) # {}) =>
        /\ pc[1] \in {"idle", "ur_updateSocket"}
        /\ AllIdle =>
              /\ sessionHistory = LastRun.sessionHistory
              /\ confirmDelayed = LastRun.confirmDelayed
              /\ \E r \in Outstanding(LastRun) :
                    IF r.socketId # LastRun.socketId
                    THEN /\ matchRecord = [LastRun.matchRecord EXCEPT
                                              ![r.recordId].socketId = LastRun.socketId]
                         /\ log = Emitted(LastRun.log,
                                          <<Emit(r.socketId, "duplicate socket", "request",
                                                 r.recordId)>>)
                    ELSE /\ matchRecord = LastRun.matchRecord
                         /\ log = LastRun.log

\* C11 witness: a request of a waiting user arrived on another handle and has returned
\* with the record moved to the new handle.
C11_Witness ==
    /\ Ran("request")
    /\ \E r \in Outstanding(LastRun) : /\ r.socketId # LastRun.socketId
                                       /\ matchRecord[r.recordId].socketId = LastRun.socketId

\* C12: a run of handleDisconnected(socketId) archived every record whose handle was
\* socketId, changed nothing else in any record, created no session and sent nothing.
C12_DisconnectArchivesHandle ==
    Ran("disconnect") =>
        /\ matchRecord = [i \in DOMAIN LastRun.matchRecord |->
                             IF LastRun.matchRecord[i].socketId = LastRun.socketId
                             THEN [LastRun.matchRecord[i] EXCEPT !.isArchived = TRUE]
                             ELSE LastRun.matchRecord[i]]
        /\ sessionHistory = LastRun.sessionHistory
        /\ log = LastRun.log

\* C12 witness: the handle of a pending record disconnected while its counterpart, on
\* another handle, was pending; the record is archived and the counterpart is not.
C12_Witness ==
    /\ Ran("disconnect")
    /\ \E x, y \in RowsOf(LastRun.matchRecord) :
          /\ Reciprocal(x, y)
          /\ x.socketId = LastRun.socketId /\ y.socketId # LastRun.socketId
          /\ x.isPending /\ ~x.isArchived /\ y.isPending /\ ~y.isArchived
          /\ matchRecord[x.recordId].isArchived /\ ~matchRecord[y.recordId].isArchived

\* the table db without record id
Without(db, id) == [i \in DOMAIN db \ {id} |-> db[i]]

\* C13: a matching_request that found a candidate but no question has sent
\* question_error to the requester's handle and to the candidate's handle and nothing
\* else, has scheduled no confirm-timeout and created no session; until its last step
\* the table is as it was, and after it the table is as it was with the candidate's
\* record deleted: no record was created, none became matched or pending.
C13_QuestionErrorUndoesPairing ==
    (/\ hist # <<>> /\ LastRun.op = "request"
     /\ Total(log, "question_error") > Total(LastRun.log, "question_error")) =>
        /\ sessionHistory = LastRun.sessionHistory
        /\ confirmDelayed = LastRun.confirmDelayed
        /\ \E c \in RowsOf(LastRun.matchRecord) :
              /\ c.userId # LastRun.userId /\ ~c.matched /\ ~c.isArchived
              /\ log = Emitted(LastRun.log,
                               <<Emit(LastRun.socketId, "question_error", "request", c.recordId),
                                 Emit(c.socketId, "question_error", "request", c.recordId)>>)
              /\ \/ pc[1] = "ur_delete" /\ matchRecord = LastRun.matchRecord
                 \/ pc[1] = "idle" /\ matchRecord = Without(LastRun.matchRecord, c.recordId)

\* C13 witness: a request that got no question has returned and the candidate's
\* record is gone.
C13_Witness ==
    /\ Ran("request")
    /\ Total(log, "question_error") = Total(LastRun.log, "question_error") + 2
    /\ \E c \in RowsOf(LastRun.matchRecord) : c.recordId \notin DOMAIN matchRecord

-----------------------------------------------------------------------------
(* Record flags (Spec) *)

\* C16: in every reachable state every record that is pending is matched and names a
\* counterpart, and every record that is confirmed is pending.
C16_FlagsOrdered ==
    \A r \in Rows : /\ r.isPending => (r.matched /\ r.matchedUserId # NoUser)
                    /\ r.isConfirmed => r.isPending

\* C16 witness: a record was paired by a later request and has been confirmed.
C16_Witness ==
    \E r \in Rows : r.isConfirmed /\ r.isPending /\ r.matched /\ r.questionId = NoQuestion

-----------------------------------------------------------------------------
(* Races on one pairing (Spec) *)

\* the sessions recorded for the pairing of records x and y
SessionsOf(x, y) ==
    {i \in 1..Len(sessionHistory) :
        /\ {sessionHistory[i].userOneId, sessionHistory[i].userTwoId} = {x.userId, y.userId}
        /\ sessionHistory[i].roomNumber \in {x.roomNumber, y.roomNumber}}

\* number of notifications `event` in log l that are about record id
SentFor(l, id, event) == SumOver({e \in DOMAIN l : e.event = event /\ e.record = id}, l)

\* C17: once the handlers have returned, a paired pair of records whose two
\* confirmations were both recorded has exactly one session, both records are archived
\* and exactly one matching_success was sent for each of them, in whatever order the
\* reads and writes of the two confirmations were interleaved.
C17_ConcurrentConfirmsSerialize ==
    AllIdle =>
        \A x, y \in Rows :
            (Reciprocal(x, y) /\ x.isConfirmed /\ y.isConfirmed) =>
                /\ x.isArchived /\ y.isArchived
                /\ Cardinality(SessionsOf(x, y)) = 1
                /\ SentFor(log, x.recordId, "matching_success") = 1
                /\ SentFor(log, y.recordId, "matching_success") = 1

\* record id was archived by a run of handleMatchingConfirm (finished or in flight)
ArchivedByConfirm(id) ==
    \/ SentFor(log, id, "matching_success") > 0
    \/ \E e \in DOMAIN log : e.record = id /\ e.event = "other_declined" /\ e.by = "confirm"
    \/ \E q \in Procs :
          \/ pc[q] \in {"c_archiveUser", "c_createSession"} /\ loc[q].matchedRecord.recordId = id
          \/ pc[q] = "c_createSession" /\ loc[q].userRecord.recordId = id

\* handler p records the second confirmation of its pairing and goes on to archive
\* both records and create the session
SecondConfirmationRecorded(p) == pc[p] = "c_setConfirmed" /\ pc'[p] = "c_archiveMatched"

\* C18: a confirmation that races with a confirm-timeout, a decline or a disconnect on
\* its pairing never completes the match (second confirmation recorded, session and
\* matching_success to follow) when one of the two records has already been archived
\* by something other than a confirmation, and no match record ever has both a
\* matching_fail and a matching_success sent for it.
C18_SingleOutcome ==
    /\ [][\A p \in Procs :
             SecondConfirmationRecorded(p) =>
                 \A id \in {loc[p].userRecord.recordId, loc[p].matchedRecord.recordId} :
                     (id \in DOMAIN matchRecord /\ matchRecord[id].isArchived)
                         => ArchivedByConfirm(id)]_vars
    /\ [](\A id \in DOMAIN matchRecord :
             ~(/\ SentFor(log, id, "matching_fail") > 0
               /\ SentFor(log, id, "matching_success") > 0))

-----------------------------------------------------------------------------
(* Decline (SpecSerial) *)

\* the pairs (record of run.userId, record of its counterpart) that were paired and
\* pending, confirmed or not, when the run started
PendingPairs(run) ==
    UNION {PairedPendingIn(run.matchRecord, run.userId, b) : b \in Users \ {run.userId}}

\* a decline has sent a notification about record id
DeclinedRecord(id) == \E e \in DOMAIN log : e.record = id /\ e.by = "decline"

-----------------------------------------------------------------------------
(* Candidate selection (SpecSelect) *)

\* the users that sessions sh paired with u
PairedBefore(sh, u) ==
    {v \in Users : \E i \in 1..Len(sh) : {sh[i].userOneId, sh[i].userTwoId} = {u, v}} \ {u}

\* the waiting records of db on req's topic that belong to another user
Eligible(db, req) ==
    {r \in RowsOf(db) : /\ ~r.matched /\ ~r.isArchived
                        /\ r.topic = req.topic /\ r.userId # req.userId}

\* tier k of the selection for request req over table db and sessions sh
Tier(k, db, sh, req) ==
    {r \in Eligible(db, req) :
        /\ (k \in {1, 2}) => r.userId \notin PairedBefore(sh, req.userId)
        /\ (k \in {1, 3}) => r.difficulty = req.difficulty}

\* the runs of the selection that no other handler overlapped
SelectedAlone == overlaps = 0 /\ hist # <<>> /\ pc[1] = "ur_fetchQuestion"

\* tier k for the request being handled, over the store as it was when the run started
TierAtStart(k) == Tier(k, LastRun.matchRecord, LastRun.sessionHistory, loc[1].userRequest)

\* the users the requester was paired with when the run started
PairedAtStart == PairedBefore(LastRun.sessionHistory, LastRun.userId)

\* C14: a request handled on its own selects a record of the first tier that is not
\* empty, among the records that waited when it started, and selects none only when
\* all four tiers are empty; so a user it was paired with before is selected only
\* when no other user waits on the topic; and no request, overlapped or not, ever
\* selects a record of its own user.
C14_SelectionFollowsTiers ==
    /\ [](SelectedAlone =>
            /\ \E k \in 1..4 : /\ loc[1].existingMatch \in TierAtStart(k)
                               /\ \A j \in 1..(k - 1) : TierAtStart(j) = {}
            /\ loc[1].existingMatch.userId \in PairedAtStart
                  => \A r \in Eligible(LastRun.matchRecord, loc[1].userRequest) :
                        r.userId \in PairedAtStart)
    /\ []((overlaps = 0 /\ pc[1] = "ur_createWaiting")
             => \A k \in 1..4 : TierAtStart(k) = {})
    /\ [][\A p \in Procs :
             (pc[p] # "ur_fetchQuestion" /\ pc'[p] = "ur_fetchQuestion")
                 => loc'[p].existingMatch.userId # loc'[p].userRequest.userId]_vars

\* C14 witness: a record of another difficulty whose user was never paired with the
\* requester has been selected, in tier 2, while a record of the requester's
\* difficulty whose user was paired with it before waits as well.
C14_Witness ==
    /\ SelectedAlone
    /\ TierAtStart(1) = {}
    /\ loc[1].existingMatch \in TierAtStart(2)
    /\ TierAtStart(3) # {}

-----------------------------------------------------------------------------
(* Expiry (SpecExpiry) *)

\* record id is gone from the table or archived
Expired(id) == id \notin DOMAIN matchRecord \/ matchRecord[id].isArchived

\* C19: when every delayed message is delivered and handled, every record that is
\* ever in the table is eventually archived or deleted, whatever the clients do or
\* do not send and whichever handle the record has.
C19_EveryRecordExpires ==
    \A id \in 1..MaxEventsExpiry : (id \in DOMAIN matchRecord) ~> Expired(id)

\* C19 witness: a waiting record whose handle a duplicate connection replaced has
\* been archived by a timeout.
C19_Witness ==
    \E id \in DOMAIN matchRecord :
        /\ matchRecord[id].isArchived
        /\ SentFor(log, id, "duplicate socket") > 0
        /\ SentFor(log, id, "timeout") > 0

\* pending "timeout" message i is delivered and its handler finds a record
TimeoutFinds(i) ==
    /\ Oldest(i)
    /\ Len(hist'.pending) < Len(hist.pending)
    /\ hist'.pending = RemoveAt(hist.pending, i)
    /\ pc'[1] = "t_archive"

\* C20: the "timeout" message of a request never makes handleTimeout find (and so
\* notify and archive) a waiting record that a later request of the same user created
\* on the same handle: the record found was in the table, or was the next one to be
\* created, when the message was handed to the delayed exchange.
C20_TimeoutBoundToItsRequest ==
    [][\A i \in 1..Len(hist.pending) :
          (/\ TimeoutFinds(i)
           /\ SentFor(log, loc'[1].result.recordId, "duplicate socket") = 0
           /\ Sent(log, hist.pending[i].socketId, "question_error") = 0)
              => loc'[1].result.recordId <= hist.pending[i].born]_vars

====
